---------------------------- MODULE Spec2Model ----------------------------
(***************************************************************************)
(* mouse2joy: a state-machine model of src/src/main.rs.                    *)
(*                                                                         *)
(* main() loads the configuration, scans /dev/input for devices with       *)
(* relative axes, lets the user pick one, ungrabs the others, creates a    *)
(* virtual steering wheel and then loops forever translating REL_X events  *)
(* into clamped ABS_X positions.                                           *)
(***************************************************************************)
EXTENDS Integers, Sequences, FiniteSets, TLC

(***************************************************************************)
(* 32-bit signed arithmetic (i32).  The model checker's own integers are   *)
(* 32 bits wide, so products are computed on 10-bit limbs and never        *)
(* exceed that width themselves.                                           *)
(***************************************************************************)
MaxI32 == 2147483647
MinI32 == -MaxI32 - 1

B10 == 2^10
B20 == 2^20
B30 == 2^30

\* The four limbs of an i32: a = l[4]*2^30 + l[3]*2^20 + l[2]*2^10 + l[1],
\* the top limb signed (-2..1), the others in 0..1023.
Limbs(a) ==
    << a % B10, (a \div B10) % B10, (a \div B20) % B10, a \div B30 >>

\* The exact product a*b of two i32 values as [fits, wrapped]: fits says
\* whether the mathematical product is an i32, wrapped is the product
\* reduced modulo 2^32 into the i32 range (what wrapping_mul returns).
MulI32(a, b) ==
    LET x  == Limbs(a)
        y  == Limbs(b)
        c0 == x[1]*y[1]
        c1 == x[1]*y[2] + x[2]*y[1]
        c2 == x[1]*y[3] + x[2]*y[2] + x[3]*y[1]
        c3 == x[1]*y[4] + x[2]*y[3] + x[3]*y[2] + x[4]*y[1]
        c4 == x[2]*y[4] + x[3]*y[3] + x[4]*y[2]
        c5 == x[3]*y[4] + x[4]*y[3]
        c6 == x[4]*y[4]
        d0 == c0 % B10
        e1 == c1 + (c0 \div B10)
        d1 == e1 % B10
        e2 == c2 + (e1 \div B10)
        d2 == e2 % B10
        e3 == c3 + (e2 \div B10)
        r  == e3 % B10
        t  == c4 + (e3 \div B10) + B10*c5 + B20*c6
        low == d0 + B10*d1 + B20*d2
        top == ((r + 2) % 4) - 2
    IN  [ fits    |-> (t = 0 /\ r <= 1) \/ (t = -1 /\ r >= B10 - 2),
          wrapped |-> top * B30 + low ]

\* The sum a+b of two i32 values as [fits, wrapped].
AddI32(a, b) ==
    IF a >= 0 /\ b > MaxI32 - a
    THEN [ fits |-> FALSE, wrapped |-> ((a - MaxI32) + (b - 1)) + MinI32 ]
    ELSE IF a < 0 /\ b < MinI32 - a
    THEN [ fits |-> FALSE, wrapped |-> ((a - MinI32) + (b + 1)) + MaxI32 ]
    ELSE [ fits |-> TRUE, wrapped |-> a + b ]

(***************************************************************************)
(* Bounds of the model.                                                    *)
(***************************************************************************)
\* Entries the directory enumeration yields at most.
MaxEntries == 3
\* Characters of one stdin line at most.
MaxLineLen == 2
\* Events of one fetched batch at most.
MaxBatch == 2
\* Candidates, stdin lines and device events one run takes in.
MaxInputs == 5

(***************************************************************************)
(* The configuration collaborator (mod configuration, not in src/).        *)
(* conf.sensitivity is a numeric scalar that may be fractional; the model  *)
(* keeps it in fixed point, SensScale units per 1.0.                       *)
(***************************************************************************)
SensScale == 10
ConfigDefault == [ sensitivity |-> 10 ]

\* Sensitivities a configuration file may hold (fixed point): 2.5 and a
\* very large negative one.
FileSensitivities == { 25, -1073741820 }

\* What the configuration file can be when the process starts.
ConfigFiles ==
    { [ exists |-> FALSE, loads |-> FALSE, sensitivity |-> 0 ],
      [ exists |-> TRUE,  loads |-> FALSE, sensitivity |-> 0 ] }
    \cup { [ exists |-> TRUE, loads |-> TRUE, sensitivity |-> s ] :
             s \in FileSensitivities }

\* `conf.sensitivity as i32`: the numeric cast truncates toward zero.
AsI32(x) == IF x >= 0 THEN x \div SensScale ELSE -((-x) \div SensScale)

\* A load_config() that takes whatever an existing file holds, loaded or not.
load_config_trusts_file(file) ==
    IF file.exists THEN [ sensitivity |-> file.sensitivity ]
                   ELSE ConfigDefault

\* load_config(): the file's configuration when it exists and loads, the
\* default otherwise.
load_config(file) ==
    IF file.exists
    THEN IF file.loads THEN [ sensitivity |-> file.sensitivity ]
                       ELSE ConfigDefault
    ELSE ConfigDefault

(***************************************************************************)
(* /dev/input: the directory enumeration and the devices behind it.        *)
(***************************************************************************)
NoName == "<none>"

\* One directory entry: whether the enumeration yields it without error,
\* whether Device::open succeeds, whether the device supports
\* EventType::RELATIVE, and the device's name (NoName: name() is None).
EntryKinds ==
    { [ listed |-> FALSE, opens |-> FALSE, relative |-> FALSE, name |-> NoName ],
      [ listed |-> TRUE,  opens |-> FALSE, relative |-> FALSE, name |-> NoName ],
      [ listed |-> TRUE,  opens |-> TRUE,  relative |-> FALSE, name |-> "Keyboard" ],
      [ listed |-> TRUE,  opens |-> TRUE,  relative |-> TRUE,  name |-> "Mouse" ],
      [ listed |-> TRUE,  opens |-> TRUE,  relative |-> TRUE,  name |-> NoName ] }

SeqsUpTo(S, n) == UNION { [1..k -> S] : k \in 0..n }

\* What fs::read_dir("/dev/input") can return: an error, or an iterator
\* over at most MaxEntries entries.
ReadDirs ==
    { [ ok |-> FALSE, entries |-> << >> ] }
    \cup { [ ok |-> TRUE, entries |-> es ] : es \in SeqsUpTo(EntryKinds, MaxEntries) }

\* A Device opened from the entry at position path of the enumeration.
OpenDevice(path, entry) == [ path |-> path, name |-> entry.name ]
NoDevice == [ path |-> 0, name |-> NoName ]

\* The environments a run starts in: any build and configuration file
\* with one named mouse in /dev/input, and any directory with no
\* configuration file in a build without overflow checks.
Environments ==
    { [ checks |-> b, file |-> f,
        dir |-> [ ok |-> TRUE,
                  entries |-> << [ listed |-> TRUE, opens |-> TRUE,
                                   relative |-> TRUE, name |-> "Mouse" ] >> ] ] :
        b \in BOOLEAN, f \in ConfigFiles }
    \cup { [ checks |-> FALSE,
             file |-> [ exists |-> FALSE, loads |-> FALSE, sensitivity |-> 0 ],
             dir |-> d ] : d \in ReadDirs }

\* A scan that gives up at the first entry it cannot use.
RECURSIVE CollectUntilFailure(_, _)
CollectUntilFailure(entries, path) ==
    IF path > Len(entries) THEN << >>
    ELSE LET e == entries[path]
         IN  IF e.listed /\ e.opens /\ e.relative
             THEN << OpenDevice(path, e) >>
                  \o CollectUntilFailure(entries, path + 1)
             ELSE << >>

\* The filter_map chain of the scan: entries that are listed, open and
\* support relative events, in enumeration order.
RECURSIVE CollectFrom(_, _)
CollectFrom(entries, path) ==
    IF path > Len(entries) THEN << >>
    ELSE LET e == entries[path]
             rest == CollectFrom(entries, path + 1)
         IN  IF e.listed /\ e.opens /\ e.relative
             THEN << OpenDevice(path, e) >> \o rest
             ELSE rest

CollectMice(entries) == CollectFrom(entries, 1)

\* mouse.name().unwrap_or("Unknown Device")
NameOr(device) == IF device.name = NoName THEN "Unknown Device" ELSE device.name

\* Vec::truncate(i) in place of remove: everything from i on is dropped.
VecTruncate(v, i) == SubSeq(v, 1, i)

\* Vec::remove(i) with a 0-based i: the vector without that element.
VecRemove(v, i) == SubSeq(v, 1, i) \o SubSeq(v, i + 2, Len(v))

(***************************************************************************)
(* The selection protocol: stdout lines and stdin lines.                   *)
(***************************************************************************)
HeaderLine == [ text |-> "Several mouses detected, please select one:",
                a |-> 0, b |-> 0, name |-> "" ]
\* An item line numbered with the 0-based position of enumerate().
ItemLineZeroBased(i, device) ==
    [ text |-> "{}: {}", a |-> i - 1, b |-> 0, name |-> NameOr(device) ]
ItemLine(i, device) == [ text |-> "{}: {}", a |-> i, b |-> 0, name |-> NameOr(device) ]
InvalidLine(lo, hi) ==
    [ text |-> "Invalid selection. Please enter a number between {} and {}",
      a |-> lo, b |-> hi, name |-> "" ]

\* The enumerated list printed for several candidates.
PromptLines(devices) ==
    << HeaderLine >> \o [ i \in 1..Len(devices) |-> ItemLine(i, devices[i]) ]

\* A stdin line is a sequence of characters: digits, signs and the newline
\* that read_line keeps.
Chars == { "0", "1", "2", "+", "-", "\n" }
Lines == SeqsUpTo(Chars, MaxLineLen)

IsSpace(c) == c \in { " ", "\n" }
IsDigit(c) == c \in { "0", "1", "2", "3", "4", "5", "6", "7", "8", "9" }
DigitVal(c) ==
    CASE c = "0" -> 0 [] c = "1" -> 1 [] c = "2" -> 2 [] c = "3" -> 3
      [] c = "4" -> 4 [] c = "5" -> 5 [] c = "6" -> 6 [] c = "7" -> 7
      [] c = "8" -> 8 [] c = "9" -> 9

\* str::trim: leading and trailing whitespace removed.
RECURSIVE TrimStart(_)
TrimStart(s) ==
    IF s # << >> /\ IsSpace(Head(s)) THEN TrimStart(Tail(s)) ELSE s
RECURSIVE TrimEnd(_)
TrimEnd(s) ==
    IF s # << >> /\ IsSpace(s[Len(s)]) THEN TrimEnd(SubSeq(s, 1, Len(s) - 1)) ELSE s
Trim(s) == TrimEnd(TrimStart(s))

\* The decimal value of a nonempty all-digit sequence.
RECURSIVE Decimal(_)
Decimal(s) ==
    IF s = << >> THEN 0
    ELSE 10 * Decimal(SubSeq(s, 1, Len(s) - 1)) + DigitVal(s[Len(s)])

\* str::parse::<usize>: an optional "+", then one or more digits.  The
\* result is [ok, value]; a sign alone, an empty string or any other
\* character is an error.
ParseUsize(s) ==
    LET digits == IF s # << >> /\ Head(s) = "+" THEN Tail(s) ELSE s
    IN  IF digits # << >> /\ \A i \in 1..Len(digits) : IsDigit(digits[i])
        THEN [ ok |-> TRUE, value |-> Decimal(digits) ]
        ELSE [ ok |-> FALSE, value |-> 0 ]

\* A match with the guard index > min && index <= max.
AcceptedAboveMin(line, lo, hi) ==
    LET p == ParseUsize(Trim(line))
    IN  p.ok /\ p.value > lo /\ p.value <= hi

\* The match of input_in_range: Ok(index) if index >= min && index <= max.
Accepted(line, lo, hi) ==
    LET p == ParseUsize(Trim(line))
    IN  p.ok /\ p.value >= lo /\ p.value <= hi

(***************************************************************************)
(* Input events and the translation step.                                  *)
(***************************************************************************)
min == -4500
max == 4500

RelX(v) == [ type |-> "EV_REL", code |-> "REL_X", value |-> v ]

\* Values a REL_X event carries in the model.
RelValues == { 10, 20, -5000 }

\* The events a batch is made of: REL_X motion, motion on another axis
\* and an event of another type.
Events ==
    { RelX(v) : v \in RelValues }
    \cup { [ type |-> "EV_REL", code |-> "REL_Y", value |-> 10 ],
           [ type |-> "EV_KEY", code |-> "BTN_LEFT", value |-> 1 ] }

Batches == SeqsUpTo(Events, MaxBatch)

\* No event taken yet.
NoEvent == [ type |-> "none", code |-> "none", value |-> 0 ]

\* A match on the event type alone, whatever the axis.
IsRelAnyAxis(e) == e.type = "EV_REL"

\* ev.kind() == InputEventKind::RelAxis(RelativeAxisType::REL_X)
IsRelX(e) == e.type = "EV_REL" /\ e.code = "REL_X"

\* A clamp that forgets the lower limit.
ClampUpperOnly(p) == IF p > max THEN max ELSE p

\* The clamp of lines 109-113.
Clamp(p) == IF p < min THEN min ELSE IF p > max THEN max ELSE p

\* A translation step that adds the raw event value, without the
\* sensitivity.
TranslateUnscaled(position, value, sensitivity, checks) ==
    LET sum == AddI32(position, value)
    IN  IF checks /\ ~sum.fits
        THEN [ panics |-> TRUE, position |-> position ]
        ELSE [ panics |-> FALSE, position |-> Clamp(sum.wrapped) ]

\* Lines 105-113 on one REL_X event: [panics, position].  An overflowing
\* `*` or `+=` panics when the build has overflow checks and wraps
\* otherwise.
Translate(position, value, sensitivity, checks) ==
    LET delta == MulI32(value, sensitivity)
        sum   == AddI32(position, delta.wrapped)
    IN  IF checks /\ (~delta.fits \/ ~sum.fits)
        THEN [ panics |-> TRUE, position |-> position ]
        ELSE [ panics |-> FALSE, position |-> Clamp(sum.wrapped) ]

VARIABLES
    pc,                 \* where main() is
    overflow_checks,    \* whether the build checks arithmetic overflow
    config_file,        \* the configuration file
    dev_input,          \* the read_dir result, consumed by the scan
    conf,               \* let conf
    mouse_devices,      \* let mut mouse_devices
    candidates,         \* what the scan collected, before remove()
    input,              \* let mut input, the line of input_in_range
    index,              \* let index (0: not yet returned)
    mouse,              \* let mut mouse
    stdout,             \* lines printed with println!
    errors,             \* messages logged with error!
    ungrabbed,          \* the ungrab() calls made, with their outcome
    steering_wheel,     \* the virtual device: "none" or "created"
    wheel_value,        \* the ABS_X value the virtual device holds
    steering_position,  \* let mut steering_position
    fetch_result,       \* what the last fetch_events() returned
    events,             \* the rest of the batch being iterated
    ev,                 \* the event the for loop took last
    rel_x,              \* the REL_X values translated so far
    emits,              \* the emit() calls made, with their outcome
    inputs,             \* stdin lines and events delivered so far
    result              \* how the process ended, "running" until then

vars == << pc, overflow_checks, config_file, dev_input, conf, mouse_devices,
           candidates, input, index, mouse, stdout, errors, ungrabbed,
           steering_wheel, wheel_value, steering_position, fetch_result, events, ev,
           rel_x, emits, inputs, result >>

Init ==
    /\ pc = "load_config"
    /\ \E env \in Environments :
         /\ overflow_checks = env.checks
         /\ config_file = env.file
         /\ dev_input = env.dir
    /\ conf = [ sensitivity |-> 0 ]
    /\ mouse_devices = << >>
    /\ candidates = << >>
    /\ input = << >>
    /\ index = 0
    /\ mouse = NoDevice
    /\ stdout = << >>
    /\ errors = << >>
    /\ ungrabbed = << >>
    /\ steering_wheel = "none"
    /\ wheel_value = 0
    /\ steering_position = 0
    /\ fetch_result = "none"
    /\ events = << >>
    /\ ev = NoEvent
    /\ rel_x = << >>
    /\ emits = << >>
    /\ inputs = 0
    /\ result = "running"

\* The build and the configuration file never change, and only the scan
\* sets what it collected.
environment == << overflow_checks, config_file >>
scanned == << environment, candidates >>
\* What the selection works on.
selection == << input, index, mouse, stdout, inputs >>
\* What the translation loop works on.
translation == << wheel_value, steering_position, fetch_result, events,
                  ev, rel_x, emits >>

\* A panic (unwrap, expect, arithmetic overflow) ends the process.
Panic(msg) ==
    /\ pc' = "exited"
    /\ result' = msg

\* Line 41: let conf = load_config().
LoadConfig ==
    /\ pc = "load_config"
    /\ conf' = load_config(config_file)
    /\ pc' = "scan"
    /\ UNCHANGED << scanned, dev_input, mouse_devices, selection, errors,
                    ungrabbed, steering_wheel, translation, result >>

\* Lines 45-54: read_dir(..).unwrap() and the filter_map chain, which
\* consumes the enumeration.
Scan ==
    /\ pc = "scan"
    /\ dev_input.ok
    /\ mouse_devices' = CollectMice(dev_input.entries)
    /\ candidates' = mouse_devices'
    /\ dev_input' = [ ok |-> TRUE, entries |-> << >> ]
    /\ pc' = "check_empty"
    /\ UNCHANGED << environment, conf, selection, errors, ungrabbed,
                    steering_wheel, translation, result >>

\* Line 46: unwrap() of a failed read_dir.
ScanPanics ==
    /\ pc = "scan"
    /\ ~dev_input.ok
    /\ Panic("panic: read_dir")
    /\ UNCHANGED << scanned, dev_input, conf, mouse_devices, selection,
                    errors, ungrabbed, steering_wheel, translation >>

\* The error is logged but main does not return.
NoMouseFallsThrough ==
    /\ pc = "check_empty"
    /\ mouse_devices = << >>
    /\ errors' = Append(errors, "NoMouseError")
    /\ pc' = "input_in_range"
    /\ UNCHANGED << scanned, dev_input, conf, mouse_devices, selection,
                    ungrabbed, steering_wheel, translation, result >>

\* Lines 56-59: no candidate is an error result of main.
NoMouse ==
    /\ pc = "check_empty"
    /\ mouse_devices = << >>
    /\ errors' = Append(errors, "NoMouseError")
    /\ pc' = "exited"
    /\ result' = "Err(NoMouseError)"
    /\ UNCHANGED << scanned, dev_input, conf, mouse_devices, selection,
                    ungrabbed, steering_wheel, translation >>

\* Lines 62-67: the list is printed unless there is exactly one candidate.
Prompt ==
    /\ pc = "check_empty"
    /\ mouse_devices # << >>
    /\ stdout' = IF ~(Len(mouse_devices) = 1)
                 THEN stdout \o PromptLines(mouse_devices)
                 ELSE stdout
    /\ pc' = "input_in_range"
    /\ UNCHANGED << scanned, dev_input, conf, mouse_devices, input, index,
                    mouse, inputs, errors, ungrabbed, steering_wheel,
                    translation, result >>

\* Lines 164-167 of input_in_range(1, len): a line is read into input.
ReadLine ==
    /\ pc = "input_in_range"
    /\ Len(candidates) + inputs < MaxInputs
    /\ \E line \in Lines : input' = line
    /\ inputs' = inputs + 1
    /\ pc' = "match_input"
    /\ UNCHANGED << scanned, dev_input, conf, mouse_devices, index, mouse,
                    stdout, errors, ungrabbed, steering_wheel, translation,
                    result >>

\* Line 167: expect() of a failed read_line.
ReadLinePanics ==
    /\ pc = "input_in_range"
    /\ Panic("panic: Failed to read line")
    /\ UNCHANGED << scanned, dev_input, conf, mouse_devices, selection,
                    errors, ungrabbed, steering_wheel, translation >>

\* Lines 169-172: the line is a number within the range and is returned.
AcceptInput ==
    /\ pc = "match_input"
    /\ Accepted(input, 1, Len(mouse_devices))
    /\ index' = ParseUsize(Trim(input)).value
    /\ input' = << >>
    /\ pc' = "remove"
    /\ UNCHANGED << scanned, dev_input, conf, mouse_devices, mouse, stdout,
                    inputs, errors, ungrabbed, steering_wheel, translation,
                    result >>

\* Any other line prints the message and falls back to the first device.
RejectInputPicksFirst ==
    /\ pc = "match_input"
    /\ ~Accepted(input, 1, Len(mouse_devices))
    /\ stdout' = Append(stdout, InvalidLine(1, Len(mouse_devices)))
    /\ input' = << >>
    /\ index' = 1
    /\ pc' = "remove"
    /\ UNCHANGED << scanned, dev_input, conf, mouse_devices, mouse,
                    inputs, errors, ungrabbed, steering_wheel, translation,
                    result >>

\* Lines 173-179 and 164: any other line prints the message and the loop
\* starts over with the buffer cleared.
RejectInput ==
    /\ pc = "match_input"
    /\ ~Accepted(input, 1, Len(mouse_devices))
    /\ stdout' = Append(stdout, InvalidLine(1, Len(mouse_devices)))
    /\ input' = << >>
    /\ pc' = "input_in_range"
    /\ UNCHANGED << scanned, dev_input, conf, mouse_devices, index, mouse,
                    inputs, errors, ungrabbed, steering_wheel, translation,
                    result >>

\* Lines 70-71: the selected device is moved out of the vector.
Remove ==
    /\ pc = "remove"
    /\ mouse' = mouse_devices[index]
    /\ mouse_devices' = VecRemove(mouse_devices, index - 1)
    /\ pc' = "ungrab"
    /\ UNCHANGED << scanned, dev_input, conf, input, index, stdout, inputs,
                    errors, ungrabbed, steering_wheel, translation, result >>

\* A loop that stops releasing at the first ungrab() that fails.
UngrabStopsAtFailure ==
    /\ pc = "ungrab"
    /\ mouse_devices # << >>
    /\ \E ok \in BOOLEAN :
         /\ ungrabbed' = Append(ungrabbed, [ path |-> Head(mouse_devices).path,
                                             ok |-> ok ])
         /\ mouse_devices' = IF ok THEN Tail(mouse_devices) ELSE << >>
    /\ UNCHANGED << pc, scanned, dev_input, conf, selection, errors,
                    steering_wheel, translation, result >>

\* Lines 74-78, one turn of the loop: the next unwanted device is
\* ungrabbed, with either outcome, and dropped.
Ungrab ==
    /\ pc = "ungrab"
    /\ mouse_devices # << >>
    /\ \E ok \in BOOLEAN :
         ungrabbed' = Append(ungrabbed, [ path |-> Head(mouse_devices).path,
                                          ok |-> ok ])
    /\ mouse_devices' = Tail(mouse_devices)
    /\ UNCHANGED << pc, scanned, dev_input, conf, selection, errors,
                    steering_wheel, translation, result >>

\* Lines 83-97 and 141-157: the virtual device is built with the axis at
\* its initial value, and the accumulator starts at 0.
CreateSteeringWheel ==
    /\ pc = "ungrab"
    /\ mouse_devices = << >>
    /\ steering_wheel' = "created"
    /\ wheel_value' = 0
    /\ steering_position' = 0
    /\ pc' = "fetch_events"
    /\ UNCHANGED << scanned, dev_input, conf, mouse_devices, selection,
                    errors, ungrabbed, fetch_result, events, ev, rel_x,
                    emits, result >>

\* A failed create_steering_wheel that is passed over: the loop starts
\* without a virtual device.
CreateFailureIgnored ==
    /\ pc = "ungrab"
    /\ mouse_devices = << >>
    /\ pc' = "fetch_events"
    /\ UNCHANGED << scanned, dev_input, conf, mouse_devices, selection,
                    errors, ungrabbed, steering_wheel, translation, result >>

\* Line 91: unwrap() of a failed create_steering_wheel.
CreatePanics ==
    /\ pc = "ungrab"
    /\ mouse_devices = << >>
    /\ Panic("panic: create_steering_wheel")
    /\ UNCHANGED << scanned, dev_input, conf, mouse_devices, selection,
                    errors, ungrabbed, steering_wheel, translation >>

\* Lines 100-101: fetch_events() returns a batch.
FetchEvents ==
    /\ pc = "fetch_events"
    /\ \E batch \in Batches :
         /\ Len(candidates) + inputs + Len(batch) <= MaxInputs
         /\ events' = batch
         /\ inputs' = inputs + Len(batch)
    /\ fetch_result' = "Ok"
    /\ pc' = "for_ev"
    /\ UNCHANGED << scanned, dev_input, conf, mouse_devices, input, index,
                    mouse, stdout, errors, ungrabbed, steering_wheel,
                    wheel_value, steering_position, ev, rel_x, emits,
                    result >>

\* A failed fetch_events() returned as main's error.
FetchFailsIsFatal ==
    /\ pc = "fetch_events"
    /\ fetch_result' = "Err"
    /\ pc' = "exited"
    /\ result' = "Err(FailedToReadInput)"
    /\ UNCHANGED << scanned, dev_input, conf, mouse_devices, selection,
                    errors, ungrabbed, steering_wheel, wheel_value,
                    steering_position, events, ev, rel_x, emits >>

\* Lines 100 and 133-136: fetch_events() fails; warn and continue.
FetchFails ==
    /\ pc = "fetch_events"
    /\ fetch_result' = "Err"
    /\ UNCHANGED << pc, scanned, dev_input, conf, mouse_devices, selection,
                    errors, ungrabbed, steering_wheel, wheel_value,
                    steering_position, events, ev, rel_x, emits, result >>

\* Line 102: the batch is exhausted.
BatchDone ==
    /\ pc = "for_ev"
    /\ events = << >>
    /\ pc' = "fetch_events"
    /\ UNCHANGED << scanned, dev_input, conf, mouse_devices, selection,
                    errors, ungrabbed, steering_wheel, translation, result >>

\* Line 103: an event that is not REL_X is passed over.
IgnoreEvent ==
    /\ pc = "for_ev"
    /\ events # << >>
    /\ ~IsRelX(Head(events))
    /\ ev' = Head(events)
    /\ events' = Tail(events)
    /\ UNCHANGED << pc, scanned, dev_input, conf, mouse_devices, selection,
                    errors, ungrabbed, steering_wheel, wheel_value,
                    steering_position, fetch_result, rel_x, emits, result >>

\* A translation that builds the output event before updating the position.
TranslateEventEmitsPrevious ==
    /\ pc = "for_ev"
    /\ events # << >>
    /\ IsRelX(Head(events))
    /\ LET t == Translate(steering_position, Head(events).value,
                          AsI32(conf.sensitivity), overflow_checks)
       IN  /\ ~t.panics
           /\ steering_position' = t.position
           /\ \E ok \in BOOLEAN :
                /\ emits' = Append(emits, [ value |-> steering_position,
                                            ok |-> ok ])
                /\ wheel_value' = IF ok THEN steering_position
                                        ELSE wheel_value
    /\ rel_x' = Append(rel_x, Head(events).value)
    /\ ev' = Head(events)
    /\ events' = Tail(events)
    /\ UNCHANGED << pc, scanned, dev_input, conf, mouse_devices, selection,
                    errors, ungrabbed, steering_wheel, fetch_result, result >>

\* A translation that restores the old position when emit() fails.
TranslateEventRollsBack ==
    /\ pc = "for_ev"
    /\ events # << >>
    /\ IsRelX(Head(events))
    /\ LET t == Translate(steering_position, Head(events).value,
                          AsI32(conf.sensitivity), overflow_checks)
       IN  /\ ~t.panics
           /\ \E ok \in BOOLEAN :
                /\ emits' = Append(emits, [ value |-> t.position, ok |-> ok ])
                /\ wheel_value' = IF ok THEN t.position ELSE wheel_value
                /\ steering_position' =
                     IF ok THEN t.position ELSE steering_position
    /\ rel_x' = Append(rel_x, Head(events).value)
    /\ ev' = Head(events)
    /\ events' = Tail(events)
    /\ UNCHANGED << pc, scanned, dev_input, conf, mouse_devices, selection,
                    errors, ungrabbed, steering_wheel, fetch_result, result >>

\* Lines 103-130 on a REL_X event: the position is updated and clamped,
\* and one ABS_X event is emitted, with either outcome.
TranslateEvent ==
    /\ pc = "for_ev"
    /\ events # << >>
    /\ IsRelX(Head(events))
    /\ LET t == Translate(steering_position, Head(events).value,
                          AsI32(conf.sensitivity), overflow_checks)
       IN  /\ ~t.panics
           /\ steering_position' = t.position
           /\ \E ok \in BOOLEAN :
                /\ emits' = Append(emits, [ value |-> t.position, ok |-> ok ])
                /\ wheel_value' = IF ok THEN t.position ELSE wheel_value
    /\ rel_x' = Append(rel_x, Head(events).value)
    /\ ev' = Head(events)
    /\ events' = Tail(events)
    /\ UNCHANGED << pc, scanned, dev_input, conf, mouse_devices, selection,
                    errors, ungrabbed, steering_wheel, fetch_result, result >>

\* Lines 105-106 on a REL_X event whose arithmetic overflows in a build
\* with overflow checks.
TranslatePanics ==
    /\ pc = "for_ev"
    /\ events # << >>
    /\ IsRelX(Head(events))
    /\ Translate(steering_position, Head(events).value,
                 AsI32(conf.sensitivity), overflow_checks).panics
    /\ Panic("panic: arithmetic overflow")
    /\ UNCHANGED << scanned, dev_input, conf, mouse_devices, selection,
                    errors, ungrabbed, steering_wheel, translation >>

Next ==
    \/ LoadConfig
    \/ Scan
    \/ ScanPanics
    \/ NoMouse
    \/ Prompt
    \/ ReadLine
    \/ ReadLinePanics
    \/ AcceptInput
    \/ RejectInput
    \/ Remove
    \/ Ungrab
    \/ CreateSteeringWheel
    \/ CreatePanics
    \/ FetchEvents
    \/ FetchFails
    \/ BatchDone
    \/ IgnoreEvent
    \/ TranslateEvent
    \/ TranslatePanics

Spec == Init /\ [][Next]_vars

\* main up to the remove() of line 70: configuration, scan and selection.
StartupNext ==
    \/ LoadConfig
    \/ Scan
    \/ ScanPanics
    \/ NoMouse
    \/ Prompt
    \/ ReadLine
    \/ ReadLinePanics
    \/ AcceptInput
    \/ RejectInput
    \/ Remove

\* The selection is code of one thread that blocks only in read_line: once
\* a line is in the buffer the match of input_in_range runs, and once
\* input_in_range has returned the remove() of line 70 runs.
LiveSpec ==
    /\ Init
    /\ [][StartupNext]_vars
    /\ WF_vars(AcceptInput \/ RejectInput \/ Remove)

(***************************************************************************)
(* The claims.                                                             *)
(***************************************************************************)
\* The integer sensitivity the translation loop multiplies by.
Sensitivity == AsI32(conf.sensitivity)

InWheelRange(p) == -4500 <= p /\ p <= 4500

\* C1 (clamping invariant): in every reachable state the steering position
\* lies in -4500..4500, and so does the value of every ABS_X event handed
\* to emit() and the value the virtual device holds.
C1_ClampingInvariant ==
    /\ InWheelRange(steering_position)
    /\ \A i \in 1..Len(emits) : InWheelRange(emits[i].value)
    /\ InWheelRange(wheel_value)

\* C1's case: in a build without overflow checks, with sensitivity
\* -107374182, the second of the events 10, 20 overflows the addition and
\* the wrapped sum is clamped to 4500.
C1_Witness ==
    /\ ~overflow_checks
    /\ Sensitivity = -107374182
    /\ rel_x = << 10, 20 >>
    /\ emits # << >>
    /\ steering_position = 4500

\* clamp(position + v*S, -4500, 4500) over the mathematical integers, for
\* a position within the range and i32 values v and S.  A product or a sum
\* beyond 32 bits is far outside the range, on the side of its sign.
ExactClamp(position, v, S) ==
    LET product == MulI32(v, S)
        sum     == AddI32(position, product.wrapped)
    IN  IF ~product.fits
        THEN IF (v > 0) = (S > 0) THEN 4500 ELSE -4500
        ELSE IF ~sum.fits
        THEN IF product.wrapped > 0 THEN 4500 ELSE -4500
        ELSE IF sum.wrapped < -4500 THEN -4500
        ELSE IF sum.wrapped > 4500 THEN 4500
        ELSE sum.wrapped

\* Scenario A: with sensitivity 2 the deltas 10, 20, -5000 from position 0
\* give the positions 20, 60, -4500.
ScenarioA ==
    LET deltas    == << 10, 20, -5000 >>
        positions == << 20, 60, -4500 >>
    IN  \A k \in 1..3 :
          ( /\ Sensitivity = 2
            /\ Len(rel_x) >= k
            /\ SubSeq(rel_x, 1, k) = SubSeq(deltas, 1, k) )
          => emits[k].value = positions[k]

\* C2 (translation step): every step that completes the translation of a
\* REL_X event with value v leaves the position at
\* clamp(position + v*S, -4500, 4500), and scenario A holds.
C2_TranslationStep ==
    /\ [][ ( /\ pc = "for_ev" /\ events # << >>
             /\ Head(events).type = "EV_REL" /\ Head(events).code = "REL_X"
             /\ rel_x' # rel_x )
           => steering_position' =
                ExactClamp(steering_position, Head(events).value, Sensitivity)
       ]_vars
    /\ []ScenarioA

\* The sum of a sequence of small integers.
RECURSIVE SumSeq(_)
SumSeq(ds) == IF ds = << >> THEN 0 ELSE Head(ds) + SumSeq(Tail(ds))

\* Whether S*x lies in -4500..4500, decided without forming a product
\* larger than 4500*4500.
ProductInWheelRange(S, x) ==
    \/ S = 0
    \/ x = 0
    \/ /\ -4500 <= S /\ S <= 4500
       /\ -4500 <= x /\ x <= 4500
       /\ InWheelRange(S * x)

\* No intermediate sum S*(d1+...+dk) leaves the range.
NoClampTriggered(S, ds) ==
    \A k \in 1..Len(ds) : ProductInWheelRange(S, SumSeq(SubSeq(ds, 1, k)))

\* C3 (monotonic accumulation): while no intermediate sum of the REL_X
\* deltas translated so far, scaled by the sensitivity, has left
\* -4500..4500, the position is the sensitivity times their sum.
C3_MonotonicAccumulation ==
    NoClampTriggered(Sensitivity, rel_x)
        => steering_position = Sensitivity * SumSeq(rel_x)

\* C3's case: three deltas, which take at least two batches, summed
\* without clamping under sensitivity 2.
C3_Witness ==
    /\ Sensitivity = 2
    /\ rel_x = << 10, 10, 20 >>
    /\ NoClampTriggered(Sensitivity, rel_x)
    /\ steering_position = 80
\* C4 (idempotent ignore, no decay): a step changes the steering position,
\* calls emit() or changes the value the virtual device holds only when it
\* handles a REL_X event of the batch; every other step (another event, an
\* empty batch, a failed read, any startup step) leaves all three alone.
C4_OnlyRelXMoves ==
    [][ ( \/ steering_position' # steering_position
          \/ emits' # emits
          \/ wheel_value' # wheel_value )
        => ( /\ pc = "for_ev" /\ events # << >>
             /\ Head(events).type = "EV_REL"
             /\ Head(events).code = "REL_X" )
      ]_vars

\* C4's case: the loop has passed over an event of another axis or type
\* with the position away from 0, and the position is still there.
C4_Witness ==
    /\ pc = "for_ev"
    /\ ev.type # "none"
    /\ ~(ev.type = "EV_REL" /\ ev.code = "REL_X")
    /\ rel_x = << 10, 20 >>
    /\ Sensitivity = 2
    /\ steering_position = 60

\* Whether position + v*S is computed without leaving 32 bits.
FitsI32(position, v, S) ==
    /\ MulI32(v, S).fits
    /\ AddI32(position, MulI32(v, S).wrapped).fits

\* C5 (emit failure): a failed emit() is the only attempt for its event
\* and leaves the virtual device's value alone; the position stays at the
\* value that failed to go out, the loop goes on with the rest of the same
\* batch, and the next REL_X event is translated from that position.
C5_EmitFailure ==
    /\ [][ ( emits' # emits /\ ~emits'[Len(emits')].ok )
           => ( /\ Len(emits') = Len(emits) + 1
                /\ wheel_value' = wheel_value
                /\ steering_position' = emits'[Len(emits')].value
                /\ pc' = "for_ev"
                /\ events' = Tail(events)
                /\ result' = "running" )
         ]_vars
    /\ [] ( /\ Len(emits) = Len(rel_x)
            /\ emits # << >> => steering_position = emits[Len(emits)].value
            /\ \A i \in 1..(Len(emits) - 1) :
                 ( ~emits[i].ok
                   /\ FitsI32(emits[i].value, rel_x[i + 1], Sensitivity) )
                 => emits[i + 1].value =
                      ExactClamp(emits[i].value, rel_x[i + 1], Sensitivity) )

\* C5's case: of the batch 10, 20 under sensitivity 2 the emit for the
\* first event has failed; the position is 20, the device still holds 0
\* and the second event is next.
C5_Witness ==
    /\ Sensitivity = 2
    /\ pc = "for_ev"
    /\ rel_x = << 10 >>
    /\ emits = << [ value |-> 20, ok |-> FALSE ] >>
    /\ events = << RelX(20) >>
    /\ steering_position = 20
    /\ wheel_value = 0

\* C6 (single candidate): when the selection has returned with exactly one
\* candidate in the vector, nothing has been printed and no stdin line has
\* been read.
C6_SingleCandidateNoPrompt ==
    ( pc = "remove" /\ Len(mouse_devices) = 1 )
        => ( stdout = << >> /\ inputs = 0 )

\* Whether a line, without its surrounding whitespace, is a decimal number
\* (an optional "+" and digits) between 1 and count.
ValidChoice(line, count) ==
    LET t  == Trim(line)
        ds == IF t # << >> /\ t[1] = "+" THEN Tail(t) ELSE t
    IN  /\ ds # << >>
        /\ \A i \in 1..Len(ds) : ds[i] \in { "0", "1", "2", "3", "4", "5", "6", "7", "8", "9" }
        /\ Decimal(ds) \in 1..count

\* C7 (selection validation): with more than one candidate, a line that is
\* not a number within 1..count sends the loop back to reading with no
\* device selected; and as long as no index has been returned no device is
\* selected, none is released, the virtual device does not exist and the
\* translation loop has not started.
C7_SelectionValidation ==
    /\ [][ ( /\ pc = "match_input"
             /\ Len(mouse_devices) > 1
             /\ ~ValidChoice(input, Len(mouse_devices)) )
           => ( /\ pc' = "input_in_range"
                /\ index' = 0
                /\ mouse' = NoDevice
                /\ mouse_devices' = mouse_devices
                /\ result' = "running" )
         ]_vars
    /\ [] ( index = 0
            => ( /\ mouse = NoDevice
                 /\ ungrabbed = << >>
                 /\ steering_wheel = "none"
                 /\ fetch_result = "none"
                 /\ pc \notin { "remove", "ungrab", "fetch_events", "for_ev" } ) )

\* C7's case: two candidates, two lines read and both rejected; the loop
\* is reading again.
C7_Witness ==
    /\ Len(mouse_devices) = 2
    /\ pc = "input_in_range"
    /\ inputs = 2
    /\ index = 0
    /\ stdout = PromptLines(mouse_devices)
                  \o << InvalidLine(1, 2), InvalidLine(1, 2) >>

\* C8 (no input source): with no candidate the step after the scan logs
\* the no-mouse error and ends main with Err(NoMouseError); no line has
\* been read, nothing printed, no virtual device created, no event fetched
\* or emitted, and nothing happens afterwards.
C8_NoMouseFatal ==
    /\ [][ ( pc = "check_empty" /\ mouse_devices = << >> )
           => ( /\ pc' = "exited"
                /\ result' = "Err(NoMouseError)"
                /\ errors' = << "NoMouseError" >> )
         ]_vars
    /\ [] ( result = "Err(NoMouseError)"
            => ( /\ pc = "exited"
                 /\ errors = << "NoMouseError" >>
                 /\ inputs = 0
                 /\ stdout = << >>
                 /\ steering_wheel = "none"
                 /\ fetch_result = "none"
                 /\ emits = << >> ) )
    /\ [][ pc = "exited" => UNCHANGED vars ]_vars

\* C8's case: the scan found nothing and main has returned the error.
C8_Witness ==
    /\ pc = "exited"
    /\ result = "Err(NoMouseError)"
    /\ mouse_devices = << >>
    /\ errors = << "NoMouseError" >>

\* C9 (two fatal outcomes, at startup only): whenever the process has
\* ended on its own, it ended with the no-mouse error or with the failed
\* registration of the virtual device, and the translation loop had not
\* been reached.
C9_OnlyTwoFatalOutcomes ==
    result # "running"
        => ( /\ result \in { "Err(NoMouseError)",
                             "panic: create_steering_wheel" }
             /\ steering_wheel = "none" )

\* C10 (read-failure recovery): a failed fetch_events() leaves the loop at
\* the read with the process running and the position, the virtual device,
\* the emit history and the selected device untouched; in every state
\* whose last read failed the next read is possible; and every position
\* is computed from the position before it, whatever reads failed between.
C10_ReadFailureRecovery ==
    /\ [][ ( pc = "fetch_events" /\ fetch_result' = "Err" )
           => ( /\ pc' = "fetch_events"
                /\ result' = "running"
                /\ UNCHANGED << steering_position, wheel_value, emits, rel_x,
                                events, steering_wheel, mouse, inputs >> )
         ]_vars
    /\ [] ( fetch_result = "Err"
            => ( pc = "fetch_events" /\ result = "running"
                 /\ ENABLED FetchEvents ) )
    /\ [] ( \A i \in 1..Len(emits) :
              LET before == IF i = 1 THEN 0 ELSE emits[i - 1].value
              IN  FitsI32(before, rel_x[i], Sensitivity)
                  => emits[i].value = ExactClamp(before, rel_x[i], Sensitivity) )

\* C10's case: the read fails with the position at 60 after two events,
\* and the environment still has an event to deliver.
C10_Witness ==
    /\ pc = "fetch_events"
    /\ fetch_result = "Err"
    /\ Sensitivity = 2
    /\ rel_x = << 10, 20 >>
    /\ steering_position = 60
    /\ Len(candidates) + inputs < MaxInputs


(***************************************************************************)
(* C11: configuration fallback.                                            *)
(***************************************************************************)
\* The three cases of the configuration file.
ConfigAbsent == ~config_file.exists
ConfigFailsToLoad == config_file.exists /\ ~config_file.loads
ConfigLoads == config_file.exists /\ config_file.loads

\* C11: whatever the configuration file is (absent, present but failing
\* to load, or loading), the load_config step does not end the process and
\* goes on to the scan with a sensitivity: the default one when the file
\* is absent or fails to load, the file's when it loads.  No later step,
\* the translation loop included, changes conf.
C11_ConfigurationFallback ==
    /\ [][ pc = "load_config"
           => /\ pc' = "scan"
              /\ result' = "running"
              /\ ConfigAbsent => conf' = ConfigDefault
              /\ ConfigFailsToLoad => conf' = ConfigDefault
              /\ ConfigLoads
                 => conf' = [ sensitivity |-> config_file.sensitivity ] ]_vars
    /\ [][ pc # "load_config" => conf' = conf ]_vars

\* C11's case: the file exists but fails to load, and the loop has
\* translated an event with the default sensitivity.
C11_Witness ==
    /\ ConfigFailsToLoad
    /\ conf = ConfigDefault
    /\ steering_wheel = "created"
    /\ rel_x = << 10 >>
    /\ steering_position = 10


(***************************************************************************)
(* C12: selection result.                                                  *)
(***************************************************************************)
\* The number a valid choice denotes: the value of its digits.
ChosenNumber(line) == Decimal(SelectSeq(line, IsDigit))

\* The sequence v without its k-th element (1-based), the others in order.
Without(v, k) ==
    [ j \in 1..(Len(v) - 1) |-> IF j < k THEN v[j] ELSE v[j + 1] ]

\* C12: the selection returns on the first line that is a number k within
\* 1..count and returns that k (a line that is not leaves index unset);
\* the device then selected is the k-th candidate of the scan, the
\* candidate sequence loses exactly that element and keeps the others in
\* order; a selected device is never replaced.
C12_SelectionResult ==
    /\ [][ pc = "match_input"
           => IF ValidChoice(input, Len(candidates))
              THEN /\ pc' = "remove"
                   /\ index' = ChosenNumber(input)
                   /\ index' \in 1..Len(candidates)
              ELSE /\ pc' = "input_in_range"
                   /\ index' = 0 ]_vars
    /\ [][ index' # index => ( index = 0 /\ pc = "match_input" ) ]_vars
    /\ [][ pc = "remove"
           => /\ mouse_devices = candidates
              /\ mouse' = candidates[index]
              /\ mouse_devices' = Without(candidates, index)
              /\ Len(mouse_devices') = Len(candidates) - 1 ]_vars
    /\ [][ mouse # NoDevice => mouse' = mouse ]_vars
    /\ [] ( mouse # NoDevice => mouse = candidates[index] )

\* C12's case: of two candidates the second was chosen, after a rejected
\* line; the first is what is left of the sequence.
C12_Witness ==
    /\ Len(candidates) = 2
    /\ inputs = 2
    /\ index = 2
    /\ mouse = candidates[2]
    /\ mouse_devices = << candidates[1] >>
    /\ pc = "ungrab"


(***************************************************************************)
(* C13: exclusivity release.                                               *)
(***************************************************************************)
\* The paths of a sequence of devices or of ungrab() calls.
Paths(v) == [ j \in 1..Len(v) |-> v[j].path ]

\* C13: while the release loop runs, the devices it has tried to ungrab
\* followed by those it still holds are the candidates other than the
\* selected one, each once and in order; one turn makes one attempt on the
\* next device and drops it whether the attempt succeeded or not, and
\* leaves the process running; the selected device is never ungrabbed; the
\* virtual device is created only when every other candidate has had its
\* attempt, and from then on the attempts made are exactly those.
C13_ExclusivityRelease ==
    /\ [] ( pc = "ungrab"
            => Paths(ungrabbed) \o Paths(mouse_devices)
                 = Paths(Without(candidates, index)) )
    /\ [][ ( pc = "ungrab" /\ mouse_devices # << >> )
           => /\ Len(ungrabbed') = Len(ungrabbed) + 1
              /\ ungrabbed'[Len(ungrabbed')].path = Head(mouse_devices).path
              /\ SubSeq(ungrabbed', 1, Len(ungrabbed)) = ungrabbed
              /\ mouse_devices' = Tail(mouse_devices)
              /\ pc' = "ungrab"
              /\ result' = "running" ]_vars
    /\ [] ( \A j \in 1..Len(ungrabbed) : ungrabbed[j].path # mouse.path )
    /\ [] ( ( steering_wheel = "created"
              \/ result = "panic: create_steering_wheel" )
            => /\ mouse_devices = << >>
               /\ Paths(ungrabbed) = Paths(Without(candidates, index)) )

\* C13's case: the first of three candidates was selected, the ungrab() of
\* the second failed, the third was ungrabbed all the same, both were
\* dropped and the loop is running.
C13_Witness ==
    /\ Len(candidates) = 3
    /\ index = 1
    /\ mouse = candidates[1]
    /\ ungrabbed = << [ path |-> candidates[2].path, ok |-> FALSE ],
                      [ path |-> candidates[3].path, ok |-> TRUE ] >>
    /\ mouse_devices = << >>
    /\ steering_wheel = "created"
    /\ fetch_result = "Ok"


(***************************************************************************)
(* C14: startup ordering.                                                  *)
(***************************************************************************)
\* The startup step a control point belongs to: configuration 0, scan 1,
\* selection 2, release and registration 3, translation loop 4, exit 5.
Stage(p) ==
    CASE p = "load_config" -> 0
      [] p \in { "scan", "check_empty" } -> 1
      [] p \in { "input_in_range", "match_input", "remove" } -> 2
      [] p = "ungrab" -> 3
      [] p \in { "fetch_events", "for_ev" } -> 4
      [] p = "exited" -> 5

\* C14: the steps of a run follow one another in the order scan, selection,
\* release, registration, loop and never go back; the virtual device is
\* created in one step only, after the release of every non-selected
\* candidate, and at most once; no event is fetched, taken or emitted
\* while the virtual device does not exist; a failed registration ends the
\* process there, with no virtual device and no event read, and nothing
\* follows it.
C14_StartupOrdering ==
    /\ [][ Stage(pc') >= Stage(pc) ]_vars
    /\ [][ Stage(pc') > Stage(pc) => ( Stage(pc') = Stage(pc) + 1
                                       \/ pc' = "exited" ) ]_vars
    /\ [][ steering_wheel' # steering_wheel
           => /\ steering_wheel = "none"
              /\ steering_wheel' = "created"
              /\ pc = "ungrab"
              /\ mouse_devices = << >>
              /\ pc' = "fetch_events" ]_vars
    /\ [] ( ( \/ Stage(pc) = 4
              \/ fetch_result # "none"
              \/ ev # NoEvent
              \/ events # << >>
              \/ rel_x # << >>
              \/ emits # << >> )
            => /\ steering_wheel = "created"
               /\ index \in 1..Len(candidates)
               /\ mouse = candidates[index]
               /\ mouse_devices = << >>
               /\ Len(ungrabbed) = Len(candidates) - 1 )
    /\ [] ( Stage(pc) < 3 => ungrabbed = << >> )
    /\ [] ( Stage(pc) < 2 => inputs = 0 /\ index = 0 )
    /\ [] ( result = "panic: create_steering_wheel"
            => /\ pc = "exited"
               /\ steering_wheel = "none"
               /\ fetch_result = "none"
               /\ emits = << >> )
    /\ [][ result = "panic: create_steering_wheel" => UNCHANGED vars ]_vars

\* C14's case: scan, selection among two candidates, release and
\* registration have happened and the loop has emitted.
C14_Witness ==
    /\ Len(candidates) = 2
    /\ index = 2
    /\ Len(ungrabbed) = 1
    /\ steering_wheel = "created"
    /\ pc = "for_ev"
    /\ Len(emits) = 1


(***************************************************************************)
(* C15: one output per qualifying input, in order.                         *)
(***************************************************************************)
\* C15: the for loop takes the events of a fetched batch in delivery
\* order, one per step; handling a REL_X event makes exactly one emit()
\* call, carrying the position as clamped for that event, whether or not
\* the position changed, and handling any other event makes none; so there
\* are at all times as many emit() calls as REL_X events handled.
C15_OneOutputPerInput ==
    /\ [][ ( pc = "for_ev" /\ events # << >> )
           => /\ ev' = Head(events)
              /\ events' = Tail(events)
              /\ IF Head(events).type = "EV_REL" /\ Head(events).code = "REL_X"
                 THEN /\ Len(emits') = Len(emits) + 1
                      /\ SubSeq(emits', 1, Len(emits)) = emits
                      /\ emits'[Len(emits')].value = steering_position'
                      /\ InWheelRange(steering_position')
                      /\ rel_x' = Append(rel_x, Head(events).value)
                 ELSE emits' = emits /\ rel_x' = rel_x ]_vars
    /\ [] ( Len(emits) = Len(rel_x) )

(***************************************************************************)
(* C16: the 32-bit arithmetic of the step.                                 *)
(***************************************************************************)
\* C16: whenever the loop is about to handle a REL_X event with value v,
\* the 32-bit product v*S and the 32-bit sum position + delta are those of
\* unbounded integer arithmetic, the step leaves the position at
\* clamp(position + v*S, -4500, 4500) over the integers, and the process
\* keeps running.
C16_Arithmetic32 ==
    [][ ( /\ pc = "for_ev" /\ events # << >>
          /\ Head(events).type = "EV_REL" /\ Head(events).code = "REL_X" )
        => /\ FitsI32(steering_position, Head(events).value, Sensitivity)
           /\ steering_position' =
                ExactClamp(steering_position, Head(events).value, Sensitivity)
           /\ result' = "running" ]_vars


(***************************************************************************)
(* C17: selection prompt output.                                           *)
(***************************************************************************)
\* The list as the claim describes it: for more than one candidate the
\* heading and one line per candidate, numbered from 1 in scan order, with
\* the device's name or "Unknown Device"; nothing for a single candidate.
Listing ==
    IF Len(candidates) > 1
    THEN << [ text |-> "Several mouses detected, please select one:",
              a |-> 0, b |-> 0, name |-> "" ] >>
         \o [ k \in 1..Len(candidates) |->
                [ text |-> "{}: {}", a |-> k, b |-> 0,
                  name |-> IF candidates[k].name = NoName
                           THEN "Unknown Device"
                           ELSE candidates[k].name ] ]
    ELSE << >>

\* n "Invalid selection" messages naming the bounds 1 and count.
Rejections(n) ==
    [ k \in 1..n |->
        [ text |-> "Invalid selection. Please enter a number between {} and {}",
          a |-> 1, b |-> Len(candidates), name |-> "" ] ]

\* The lines the selection has rejected so far: those read, less the one
\* being matched and the one accepted.
Rejected ==
    inputs - ( IF pc = "match_input" THEN 1 ELSE 0 )
           - ( IF index # 0 THEN 1 ELSE 0 )

\* C17: nothing is printed before the selection; the step that starts it
\* prints the list exactly when there is more than one candidate; a
\* rejected line adds exactly one "Invalid selection" message with the
\* bounds 1 and count, an accepted line adds nothing; so during the
\* selection the output is the list followed by one message per rejected
\* line, and nothing is printed after it.
C17_SelectionPromptOutput ==
    /\ [] ( Stage(pc) < 2 => stdout = << >> )
    /\ [][ ( pc = "check_empty" /\ candidates # << >> )
           => stdout' = Listing ]_vars
    /\ [][ pc = "match_input"
           => stdout' = IF ValidChoice(input, Len(candidates))
                        THEN stdout
                        ELSE stdout \o Rejections(1) ]_vars
    /\ [] ( Stage(pc) = 2 => stdout = Listing \o Rejections(Rejected) )
    /\ [][ Stage(pc) > 2 => stdout' = stdout ]_vars

\* C17's case: two candidates, the second without a name; the list was
\* printed, one line was rejected and the next one accepted.
C17_Witness ==
    /\ Len(candidates) = 2
    /\ candidates[1].name = "Mouse"
    /\ candidates[2].name = NoName
    /\ index = 2
    /\ inputs = 2
    /\ stdout = << HeaderLine,
                   [ text |-> "{}: {}", a |-> 1, b |-> 0, name |-> "Mouse" ],
                   [ text |-> "{}: {}", a |-> 2, b |-> 0,
                     name |-> "Unknown Device" ],
                   InvalidLine(1, 2) >>


(***************************************************************************)
(* C18: scan filtering.                                                    *)
(***************************************************************************)
\* The positions of the entries that open and support relative events.
Usable(entries) ==
    { p \in 1..Len(entries) : entries[p].opens /\ entries[p].relative }

\* C18: the scan of a directory that could be read leaves as candidates
\* exactly the entries that open and support relative events, each once,
\* in enumeration order and with its own name, whatever the other entries
\* are; the scan itself does not fail and the process goes on to the check
\* for an empty result.
C18_ScanFiltering ==
    [][ ( pc = "scan" /\ dev_input.ok )
        => LET entries == dev_input.entries
           IN  /\ { candidates'[j].path : j \in 1..Len(candidates') }
                    = Usable(entries)
               /\ Len(candidates') = Cardinality(Usable(entries))
               /\ \A j \in 1..Len(candidates') :
                    /\ candidates'[j].name = entries[candidates'[j].path].name
                    /\ j > 1 => candidates'[j - 1].path < candidates'[j].path
               /\ mouse_devices' = candidates'
               /\ pc' = "check_empty"
               /\ result' = "running" ]_vars

\* C18's case: of three entries the first and the third were collected,
\* the second was skipped.
C18_Witness ==
    /\ pc = "check_empty"
    /\ Len(candidates) = 2
    /\ candidates[1].path = 1
    /\ candidates[2].path = 3
    /\ mouse_devices = candidates


(***************************************************************************)
(* C19: the virtual device's value and the accumulator.                    *)
(***************************************************************************)
\* The emit() calls that succeeded, in order.
Succeeded == SelectSeq(emits, LAMBDA e : e.ok)

\* C19: a successful emit() leaves the virtual device holding the current
\* position; the device always holds the value of the last successful
\* emit(), and 0, the initial position, before there is one; the device's
\* value and the position differ only when the last emit() failed.
C19_Resynchronisation ==
    /\ [][ ( Len(emits') = Len(emits) + 1 /\ emits'[Len(emits')].ok )
           => wheel_value' = steering_position' ]_vars
    /\ [] ( wheel_value = IF Succeeded = << >> THEN 0
                          ELSE Succeeded[Len(Succeeded)].value )
    /\ [] ( ( steering_wheel = "created" /\ emits = << >> )
            => ( wheel_value = 0 /\ steering_position = 0 ) )
    /\ [] ( wheel_value # steering_position
            => ( emits # << >> /\ ~emits[Len(emits)].ok ) )

\* C19's case: with sensitivity 2 the emit() for the event 10 failed,
\* leaving the device at 0 and the position at 20; the emit() for the
\* event 20 succeeded and the device holds the position 60 again.
C19_Witness ==
    /\ Sensitivity = 2
    /\ rel_x = << 10, 20 >>
    /\ emits = << [ value |-> 20, ok |-> FALSE ], [ value |-> 60, ok |-> TRUE ] >>
    /\ wheel_value = 60
    /\ steering_position = 60


(***************************************************************************)
(* C20: selection liveness.                                                *)
(***************************************************************************)
\* The selection loop is running: no index returned yet.
Selecting == pc \in { "input_in_range", "match_input" } /\ index = 0

\* C20: once a line that is a number within 1..count has been read, the
\* selection returns and startup goes on to the release of the other
\* candidates with a device selected.  A line that is not, the empty line
\* of an exhausted stream included, is followed by the loop reading
\* again: the step taken on it stays in the loop and leaves the process
\* running, so no number of such lines ends the loop or the process, and
\* the loop is left only by a valid line or by a failure of the read
\* itself.
C20_SelectionLiveness ==
    /\ ( pc = "match_input" /\ ValidChoice(input, Len(candidates)) )
         ~> ( pc = "ungrab" /\ index # 0 /\ mouse = candidates[index] )
    /\ ( pc = "match_input" /\ ~ValidChoice(input, Len(candidates)) )
         ~> ( pc = "input_in_range" /\ index = 0 /\ result = "running" )
    /\ [][ ( pc = "match_input" /\ ~ValidChoice(input, Len(candidates)) )
           => ( Selecting' /\ result' = "running" ) ]_vars
    /\ [][ ( Selecting /\ ~Selecting' )
           => \/ ( pc = "match_input"
                   /\ ValidChoice(input, Len(candidates)) )
              \/ ( pc = "input_in_range"
                   /\ result' = "panic: Failed to read line" ) ]_vars
    /\ [] ( Selecting => result = "running" )

\* C20's case: with a single candidate two lines were rejected, the third
\* was valid, and startup has gone on to the release.
C20_Witness ==
    /\ Len(candidates) = 1
    /\ stdout = << InvalidLine(1, 1), InvalidLine(1, 1) >>
    /\ inputs = 3
    /\ index = 1
    /\ pc = "ungrab"

=============================================================================
